---- MODULE Spec2Model ----
(***************************************************************************)
(* The global audio controller of the portfolio site                       *)
(* (src/components/audioController.js) as a state machine: the singleton   *)
(* `state` object, the queue-id counter, the waveform cache, and the one   *)
(* HTMLAudioElement the controller drives, whose play/pause/ended events   *)
(* reach the controller as separate, later tasks; with it the playlist     *)
(* views of the audio hydration module that drive it, and the paged PDF    *)
(* viewer (src/components/pdf.hydrate.js), which has a state of its own.   *)
(*                                                                         *)
(* Array positions are 0-based as in the source; a TLA+ sequence holds     *)
(* position i at index i + 1.                                              *)
(***************************************************************************)
EXTENDS Integers, Sequences, FiniteSets, TLC

----------------------------------------------------------------------------
(* Bounds of the model *)

\* tracks of the short playlist view (view 1); the long one (view 2) has one more
ListLen == 2
\* addToQueue is offered while the queue is shorter than this
MaxQueue == 3
\* queue ids handed out before the id-consuming operations are cut off
MaxIds == 4
\* handle events waiting for delivery
MaxEvents == 2
\* length of every track, in playback-position units
Duration == 5
\* playNext calls counted in the playNext scenarios
MaxCalls == 5
\* getWaveformData calls logged in the waveform scenario
MaxWaveCalls == 3
\* callbacks that callers may pass to subscribe
MaxCallbacks == 2
\* mounts of one playlist view, each making its render callback
MaxMounts == 2
\* pages of the document the PDF viewer shows
NumPages == 3

(* Program constants *)

\* playPrev restarts the track when currentTime > 3
RestartThreshold == 3

----------------------------------------------------------------------------
(* The controller's state, by the names of the source *)

VARIABLES
    currentTrack,       \* state.currentTrack
    isPlaying,          \* state.isPlaying
    miniPlayerVisible,  \* state.miniPlayerVisible
    playlists,          \* state.playlists: the registered playlist ids
    renderCallback,     \* state.playlists: the updateUI stored under each id, 0 = no entry
    callbacksMade,      \* the render callbacks createPlaylist has made for each id so far
    queue,              \* state.queue
    queueIndex,         \* state.queueIndex
    shuffle,            \* state.shuffle
    loop,               \* state.loop
    queueIdCounter,     \* let queueIdCounter
    audio,              \* state.audio: [src, paused, currentTime]
    events,             \* the handle's queued play/pause/ended event tasks
    waveformCache,      \* waveformCache: src -> generation of the cached result, 0 = none
    wavePending,        \* sources whose decode, requested by the controller, is in flight
    online,             \* the network answers the fetches of getWaveformData
    views,              \* the playlist views mounted on the page (their rows exist)
    activePlaylistId,   \* let activePlaylistId of the audio hydration module, 0 = null
    seekTimers,         \* the 100 ms timers of onSeek that have not fired: [src, pos]
    snapQueue,          \* the last getState() result holds the controller's present queue array
    subscribers,        \* subscribers: 0 is the mini-player's updateMiniPlayer, the others are callers' callbacks
    snapTrack,          \* the last getState() result holds the controller's present currentTrack object
    pdf,                \* container._pdfState of the page's paged PDF viewer, with its dots and counter
    calls,              \* scenario history: playNext calls made so far
    startLen,           \* scenario history: queue length when the playNext scenario started
    waveCalls           \* scenario history: the log of getWaveformData calls of the views

ctlVars == <<currentTrack, isPlaying, miniPlayerVisible, playlists, renderCallback,
             callbacksMade, queue, queueIndex,
             shuffle, loop, queueIdCounter, audio, events, waveformCache, wavePending,
             online, views, activePlaylistId, seekTimers, subscribers, snapQueue,
             snapTrack>>
histVars == <<calls, startLen, waveCalls>>
vars == <<currentTrack, isPlaying, miniPlayerVisible, playlists, renderCallback,
          callbacksMade, queue, queueIndex,
          shuffle, loop, queueIdCounter, audio, events, waveformCache, wavePending,
          online, views, activePlaylistId, seekTimers, subscribers, snapQueue,
          snapTrack, pdf, calls, startLen, waveCalls>>

\* a field a JavaScript object does not have (undefined)
Undef == -1

\* the playlist views of the site: the short one and the long one
PlaylistIds == {1, 2}

\* number of tracks of playlist view pid
TracksIn(pid) == ListLen + pid - 1

\* the audio sources of the site
Srcs == 1..TracksIn(2)

\* state.currentTrack = null: every property read through ?. is undefined
Null == [src |-> Undef, index |-> Undef, playlistId |-> Undef, sourceRoute |-> Undef,
         originalIndex |-> Undef, id |-> Undef, peaks |-> Undef, duration |-> 0]

\* an entry of tracksData: { src, title, index } (the title follows the src)
Track(i) == [src |-> i, index |-> i - 1]

\* the tracksData a playlist view registers
PlaylistTracks(pid) == [i \in 1..TracksIn(pid) |-> Track(i)]

\* the route a playlist view is mounted on
RouteOf(pid) == pid

\* the whole controller state as one record, so that a handler is a function
\* from state to state and handlers compose as the calls in the source do;
\* out collects the callbacks the handler invokes, in order
State == [currentTrack |-> currentTrack, isPlaying |-> isPlaying,
          miniPlayerVisible |-> miniPlayerVisible, playlists |-> playlists,
          renderCallback |-> renderCallback, callbacksMade |-> callbacksMade,
          queue |-> queue, queueIndex |-> queueIndex, shuffle |-> shuffle,
          loop |-> loop, queueIdCounter |-> queueIdCounter, audio |-> audio,
          events |-> events, waveformCache |-> waveformCache,
          wavePending |-> wavePending, online |-> online, views |-> views,
          activePlaylistId |-> activePlaylistId, seekTimers |-> seekTimers,
          subscribers |-> subscribers,
          snapQueue |-> snapQueue, snapTrack |-> snapTrack, out |-> <<>>]

\* the state after a handler has run
Install(st) ==
    /\ currentTrack' = st.currentTrack
    /\ isPlaying' = st.isPlaying
    /\ miniPlayerVisible' = st.miniPlayerVisible
    /\ playlists' = st.playlists
    /\ renderCallback' = st.renderCallback
    /\ callbacksMade' = st.callbacksMade
    /\ queue' = st.queue
    /\ queueIndex' = st.queueIndex
    /\ shuffle' = st.shuffle
    /\ loop' = st.loop
    /\ queueIdCounter' = st.queueIdCounter
    /\ audio' = st.audio
    /\ events' = st.events
    /\ waveformCache' = st.waveformCache
    /\ wavePending' = st.wavePending
    /\ online' = st.online
    /\ views' = st.views
    /\ activePlaylistId' = st.activePlaylistId
    /\ seekTimers' = st.seekTimers
    /\ subscribers' = st.subscribers
    /\ snapQueue' = st.snapQueue
    /\ snapTrack' = st.snapTrack

\* state after module load and initAudioController(), before any view mounts
InitState ==
    [currentTrack |-> Null, isPlaying |-> FALSE, miniPlayerVisible |-> FALSE,
     playlists |-> {}, renderCallback |-> [pid \in PlaylistIds |-> 0],
     callbacksMade |-> [pid \in PlaylistIds |-> 0],
     queue |-> <<>>, queueIndex |-> 0, shuffle |-> FALSE,
     loop |-> FALSE, queueIdCounter |-> 0,
     audio |-> [src |-> 0, paused |-> TRUE, currentTime |-> 0],
     events |-> <<>>, waveformCache |-> [s \in Srcs |-> 0], wavePending |-> {},
     online |-> TRUE, views |-> {}, activePlaylistId |-> 0, seekTimers |-> {},
     subscribers |-> {0},
     snapQueue |-> FALSE, snapTrack |-> FALSE, out |-> <<>>]

----------------------------------------------------------------------------
(* The output handle (HTMLAudioElement) *)

\* audio.src = s: the load algorithm pauses without an event, rewinds, and
\* drops the element's queued event tasks
AudioSetSrc(st, s) ==
    [st EXCEPT !.audio = [src |-> s, paused |-> TRUE, currentTime |-> 0],
               !.events = <<>>]

\* audio.play(): a paused element starts (from the beginning if it had ended)
\* and queues its play event
AudioPlay(st) ==
    IF st.audio.paused
    THEN [st EXCEPT !.audio.paused = FALSE,
                    !.audio.currentTime =
                        IF st.audio.currentTime = Duration THEN 0 ELSE st.audio.currentTime,
                    !.events = Append(st.events, "play")]
    ELSE st

\* audio.pause(): a playing element pauses and queues its pause event
AudioPause(st) ==
    IF st.audio.paused
    THEN st
    ELSE [st EXCEPT !.audio.paused = TRUE, !.events = Append(st.events, "pause")]

----------------------------------------------------------------------------
(* Callbacks: what a callback is called with and what it can read of the
   controller at that moment *)

\* the controller as a callback invoked now finds it
Observed(st) ==
    [currentTrack |-> st.currentTrack, queue |-> st.queue,
     queueIndex |-> st.queueIndex, isPlaying |-> st.isPlaying,
     src |-> st.audio.src]

\* the handler invokes callback cb of receiver to; fn is the function called:
\* for a playlist, the updateUI found in state.playlists under its id
Invoke(st, cb, to, index, playing, progress) ==
    [st EXCEPT !.out = Append(st.out, [cb |-> cb, to |-> to, index |-> index,
                                       playing |-> playing, progress |-> progress,
                                       fn |-> IF cb = "updateUI" THEN st.renderCallback[to]
                                              ELSE 0,
                                       sees |-> Observed(st)])]

\* getProgress(), in playback-position units
GetProgress(st) == st.audio.currentTime

\* updateMiniPlayer(): the mini-player re-renders from state
UpdateMiniPlayer(st) == Invoke(st, "updateMiniPlayer", 0, Undef, FALSE, 0)

\* updateMiniPlayerWaveform()
UpdateMiniPlayerWaveform(st) ==
    IF st.currentTrack.peaks # Undef
    THEN Invoke(st, "updateMiniPlayerWaveform", 0, Undef, FALSE, 0)
    ELSE st

\* the k-th callback of the set subs, in the order of subscription
Nth(subs, k) == CHOOSE cb \in subs : Cardinality({c \in subs : c < cb}) = k - 1

\* notifySubscribers(): subscribers.forEach(cb => cb(currentState))
NotifySubscribers(st) ==
    LET sees == Observed(st)
        subs == st.subscribers
    IN [st EXCEPT !.out = st.out \o
                      [k \in 1..Cardinality(subs) |->
                          [cb |-> "subscriber", to |-> Nth(subs, k), index |-> Undef,
                           playing |-> FALSE, progress |-> 0, fn |-> 0, sees |-> sees]]]

\* updatePlaylistUI(): the render callback of the current track's playlist
UpdatePlaylistUI(st) ==
    IF st.currentTrack # Null /\ st.currentTrack.playlistId \in st.playlists
    THEN Invoke(st, "updateUI", st.currentTrack.playlistId, st.currentTrack.index,
                st.isPlaying, GetProgress(st))
    ELSE st

\* subscribe(callback)
Subscribe(st, cb) == [st EXCEPT !.subscribers = st.subscribers \cup {cb}]

\* the function subscribe returned
Unsubscribe(st, cb) == [st EXCEPT !.subscribers = st.subscribers \ {cb}]

----------------------------------------------------------------------------
(* Waveform data *)

\* a faulty then-callback, which stores the data in whatever track is current
ApplyWaveformToAnyTrack(st, s, ok) ==
    [st EXCEPT !.currentTrack.peaks = IF ok THEN s ELSE 0,
               !.currentTrack.duration = IF ok THEN Duration ELSE 0]

\* the then-callback of playTrack / playFromQueue: the decoded data (ok) or the
\* flat placeholder is stored in currentTrack only while it still has source s
ApplyWaveform(st, s, ok) ==
    IF st.currentTrack.src = s
    THEN UpdateMiniPlayerWaveform(
             [st EXCEPT !.currentTrack.peaks = IF ok THEN s ELSE 0,
                        !.currentTrack.duration = IF ok THEN Duration ELSE 0])
    ELSE st

\* getWaveformData(s) as the controller calls it: a cached result resolves at
\* once (its callback runs when the handler returns), otherwise the fetch and
\* decode start and the callback waits for them; a fetch the network never
\* answers leaves a promise that never settles
RequestWaveform(st, s) ==
    IF st.waveformCache[s] # 0
    THEN ApplyWaveform(st, s, TRUE)
    ELSE IF st.online
         THEN [st EXCEPT !.wavePending = st.wavePending \cup {s}]
         ELSE st

\* a faulty decode, which never stores its result in the cache
DecodeWithoutCache(st, s, ok) == st

\* a faulty decode, which caches what it returns even when it failed
DecodeCachingFailure(st, s, ok) ==
    [st EXCEPT !.waveformCache[s] = st.waveformCache[s] + 1]

\* the decode of s ends: a success stores a new result object in the cache
\* (one generation later than what it replaces), a failure stores nothing
DecodeDone(st, s, ok) ==
    IF ok
    THEN [st EXCEPT !.waveformCache[s] = st.waveformCache[s] + 1]
    ELSE st

\* the in-flight getWaveformData(s) of the controller settles
WaveformSettled(st, s, ok) ==
    ApplyWaveform([DecodeDone(st, s, ok) EXCEPT !.wavePending = st.wavePending \ {s}], s, ok)

----------------------------------------------------------------------------
(* Queue management *)

\* [arr[i], arr[j]] = [arr[j], arr[i]] (0-based i, j)
Swap(arr, i, j) ==
    [arr EXCEPT ![i + 1] = arr[j + 1], ![j + 1] = arr[i + 1]]

\* the values Math.floor(Math.random() * (i + 1)) can take along one shuffle
\* of n elements: rnd[i] in 0..i for i = n-1 down to 1
RandChoices(n) ==
    {rnd \in [1..(n - 1) -> 0..(n - 1)] : \A i \in 1..(n - 1) : rnd[i] <= i}

RECURSIVE ShuffleFrom(_, _, _)
\* the loop of shuffleArray from index i downwards
ShuffleFrom(arr, rnd, i) ==
    IF i > 0 THEN ShuffleFrom(Swap(arr, i, rnd[i]), rnd, i - 1) ELSE arr

\* shuffleArray(arr): Fisher-Yates with the random draws rnd
ShuffleArray(arr, rnd) == ShuffleFrom(arr, rnd, Len(arr) - 1)

\* arr.filter((_, i) => i !== k)
Without(arr, k) ==
    [i \in 1..(Len(arr) - 1) |-> IF i <= k THEN arr[i] ELSE arr[i + 1]]

\* addToQueue(track)
AddToQueue(st, track) ==
    UpdateMiniPlayer(
        [st EXCEPT !.queue = Append(st.queue,
                                    [src |-> track.src, index |-> track.index,
                                     originalIndex |-> Undef,
                                     id |-> st.queueIdCounter + 1]),
                   !.queueIdCounter = st.queueIdCounter + 1])

\* a faulty addPlaylistToQueue, which leaves the tracks in playlist order
AddPlaylistUnrotated(st, tracks, startIndex, rnd) ==
    [st EXCEPT !.queue = [i \in 1..Len(tracks) |->
                             [src |-> tracks[i].src, index |-> tracks[i].index,
                              originalIndex |-> i - 1, id |-> st.queueIdCounter + i]],
               !.queueIdCounter = st.queueIdCounter + Len(tracks),
               !.queueIndex = 0,
               !.snapQueue = FALSE]

\* addPlaylistToQueue(tracks, startIndex); state.queue becomes a new array
AddPlaylistToQueue(st, tracks, startIndex, rnd) ==
    LET n == Len(tracks)
        newTracks == [i \in 1..n |->
                        [src |-> tracks[i].src, index |-> tracks[i].index,
                         originalIndex |-> i - 1, id |-> st.queueIdCounter + i]]
        startTrack == newTracks[startIndex + 1]
        rest == Without(newTracks, startIndex)
    IN UpdateMiniPlayer(
           [st EXCEPT !.queue =
                          IF st.shuffle
                          THEN <<startTrack>> \o ShuffleArray(rest, rnd)
                          ELSE SubSeq(newTracks, startIndex + 1, n)
                                   \o SubSeq(newTracks, 1, startIndex),
                      !.queueIdCounter = st.queueIdCounter + n,
                      !.queueIndex = 0,
                      !.snapQueue = FALSE])

\* a faulty removeFromQueue, which does not adjust queueIndex
RemoveWithoutAdjust(st, index) ==
    [st EXCEPT !.queue = Without(st.queue, index)]

\* removeFromQueue(index)
RemoveFromQueue(st, index) ==
    LET q == Without(st.queue, index)
    IN UpdateMiniPlayer(
           [st EXCEPT !.queue = q,
                      !.queueIndex =
                          IF index < st.queueIndex THEN st.queueIndex - 1
                          ELSE IF index = st.queueIndex /\ st.queueIndex >= Len(q)
                               THEN IF Len(q) - 1 > 0 THEN Len(q) - 1 ELSE 0
                               ELSE st.queueIndex])

\* arr.splice(k, 0, item)
InsertAt(arr, k, item) ==
    [i \in 1..(Len(arr) + 1) |->
        IF i <= k THEN arr[i] ELSE IF i = k + 1 THEN item ELSE arr[i - 1]]

\* a faulty reorderQueue, which moves the item and leaves queueIndex alone
ReorderWithoutTracking(st, fromIndex, toIndex) ==
    [st EXCEPT !.queue = InsertAt(Without(st.queue, fromIndex), toIndex,
                                  st.queue[fromIndex + 1])]

\* a faulty reorderQueue, which writes the dragged item over the target
ReorderOverwriting(st, fromIndex, toIndex) ==
    [st EXCEPT !.queue[toIndex + 1] = st.queue[fromIndex + 1]]

\* reorderQueue(fromIndex, toIndex)
ReorderQueue(st, fromIndex, toIndex) ==
    LET item == st.queue[fromIndex + 1]
        q == InsertAt(Without(st.queue, fromIndex), toIndex, item)
    IN UpdateMiniPlayer(
           [st EXCEPT !.queue = q,
                      !.queueIndex =
                          IF fromIndex = st.queueIndex THEN toIndex
                          ELSE IF fromIndex < st.queueIndex /\ toIndex >= st.queueIndex
                               THEN st.queueIndex - 1
                          ELSE IF fromIndex > st.queueIndex /\ toIndex <= st.queueIndex
                               THEN st.queueIndex + 1
                          ELSE st.queueIndex])

\* a faulty toggleShuffle, which shuffles the whole queue where it stands
ShuffleInPlace(st, rnd) ==
    IF ~st.shuffle /\ Len(st.queue) > 1
    THEN [st EXCEPT !.shuffle = TRUE,
                    !.queue = ShuffleArray(st.queue, <<1>> \o rnd),
                    !.snapQueue = FALSE]
    ELSE [st EXCEPT !.shuffle = ~st.shuffle]

\* toggleShuffle(); a shuffled queue is a new array
ToggleShuffle(st, rnd) ==
    LET on == ~st.shuffle
        current == st.queue[st.queueIndex + 1]
        before == SubSeq(st.queue, 1, st.queueIndex)
        after == SubSeq(st.queue, st.queueIndex + 2, Len(st.queue))
        rest == before \o after
    IN NotifySubscribers(UpdateMiniPlayer(
           IF on /\ Len(st.queue) > 1
           THEN [st EXCEPT !.shuffle = on,
                           !.queue = <<current>> \o ShuffleArray(rest, rnd),
                           !.queueIndex = 0,
                           !.snapQueue = FALSE]
           ELSE [st EXCEPT !.shuffle = on]))

\* toggleLoop()
ToggleLoop(st) == NotifySubscribers(UpdateMiniPlayer([st EXCEPT !.loop = ~st.loop]))

----------------------------------------------------------------------------
(* Playback *)

\* a faulty playTrack, which replaces the queue whenever the playlist is
\* registered
PlayTrackAlwaysPopulating(st, track, playlistId, sourceRoute, rnd) ==
    LET s1 == IF playlistId \in st.playlists
              THEN AddPlaylistToQueue(st, PlaylistTracks(playlistId), track.index, rnd)
              ELSE st
        s2 == [s1 EXCEPT !.currentTrack =
                             [src |-> track.src, index |-> track.index,
                              playlistId |-> playlistId, sourceRoute |-> sourceRoute,
                              originalIndex |-> Undef, id |-> Undef,
                              peaks |-> Undef, duration |-> 0],
                         !.miniPlayerVisible = TRUE]
    IN AudioPlay(AudioSetSrc(s2, track.src))

\* playTrack(track, playlistId, sourceRoute)
PlayTrack(st, track, playlistId, sourceRoute, rnd) ==
    LET s1 == IF Len(st.queue) = 0 /\ playlistId \in st.playlists
              THEN AddPlaylistToQueue(st, PlaylistTracks(playlistId), track.index, rnd)
              ELSE st
        s2 == [s1 EXCEPT !.currentTrack =
                             [src |-> track.src, index |-> track.index,
                              playlistId |-> playlistId, sourceRoute |-> sourceRoute,
                              originalIndex |-> Undef, id |-> Undef,
                              peaks |-> Undef, duration |-> 0],
                         !.snapTrack = FALSE]
        s3 == AudioPlay(AudioSetSrc(s2, track.src))
        s4 == [s3 EXCEPT !.miniPlayerVisible = TRUE]
    IN RequestWaveform(UpdateMiniPlayer(NotifySubscribers(s4)), track.src)

\* a faulty playFromQueue, which leaves the handle on the source it had
PlayFromQueueKeepingSource(st, qi) ==
    IF qi < 0 \/ qi >= Len(st.queue)
    THEN st
    ELSE [AudioPlay(st) EXCEPT !.queueIndex = qi,
                               !.currentTrack =
                                   [src |-> st.queue[qi + 1].src,
                                    index |-> st.queue[qi + 1].index,
                                    playlistId |-> Undef, sourceRoute |-> Undef,
                                    originalIndex |-> st.queue[qi + 1].originalIndex,
                                    id |-> st.queue[qi + 1].id,
                                    peaks |-> Undef, duration |-> 0]]

\* playFromQueue(queueIndex): the queue item becomes the current track, with
\* the fields the item has (no playlistId, no sourceRoute)
PlayFromQueue(st, qi) ==
    IF qi < 0 \/ qi >= Len(st.queue)
    THEN st
    ELSE LET track == st.queue[qi + 1]
             s1 == [st EXCEPT !.queueIndex = qi,
                              !.currentTrack =
                                  [src |-> track.src, index |-> track.index,
                                   playlistId |-> Undef, sourceRoute |-> Undef,
                                   originalIndex |-> track.originalIndex,
                                   id |-> track.id, peaks |-> Undef, duration |-> 0],
                              !.snapTrack = FALSE]
             s2 == AudioPlay(AudioSetSrc(s1, track.src))
         IN RequestWaveform(UpdateMiniPlayer(NotifySubscribers(s2)), track.src)

\* a faulty togglePlay, which does not look at the handle's source
TogglePlayUnguarded(st) ==
    IF st.isPlaying THEN AudioPause(st) ELSE AudioPlay(st)

\* togglePlay()
TogglePlay(st) ==
    IF st.audio.src = 0 THEN st
    ELSE IF st.isPlaying THEN AudioPause(st) ELSE AudioPlay(st)

\* pause()
Pause(st) == AudioPause(st)

\* seek(percent), percent given as the position it asks for out of Duration;
\* the handle knows its duration once a source is loaded
Seek(st, pos) ==
    IF st.audio.src # 0
    THEN [st EXCEPT !.audio.currentTime = pos]
    ELSE st

\* a faulty playNext, which stops at the end of the queue whatever loop is
PlayNextIgnoringLoop(st) ==
    IF Len(st.queue) = 0 THEN st
    ELSE IF st.queueIndex + 1 < Len(st.queue)
         THEN PlayFromQueue(st, st.queueIndex + 1)
         ELSE [AudioPause(st) EXCEPT !.isPlaying = FALSE]

\* playNext()
PlayNext(st) ==
    IF Len(st.queue) = 0 THEN st
    ELSE LET nextIndex == st.queueIndex + 1
         IN IF nextIndex < Len(st.queue) THEN PlayFromQueue(st, nextIndex)
            ELSE IF st.loop THEN PlayFromQueue(st, 0)
            ELSE NotifySubscribers([AudioPause(st) EXCEPT !.isPlaying = FALSE])

\* playPrev()
PlayPrev(st) ==
    IF Len(st.queue) = 0 THEN st
    ELSE IF st.audio.currentTime > RestartThreshold
         THEN [st EXCEPT !.audio.currentTime = 0]
    ELSE LET prevIndex == st.queueIndex - 1
         IN IF prevIndex >= 0 THEN PlayFromQueue(st, prevIndex)
            ELSE IF st.loop THEN PlayFromQueue(st, Len(st.queue) - 1)
            ELSE [st EXCEPT !.audio.currentTime = 0]

\* a faulty stop, which starts the queue ids again from 0
StopResettingIds(st) ==
    [AudioSetSrc(AudioPause(st), 0) EXCEPT !.currentTrack = Null,
                                           !.isPlaying = FALSE,
                                           !.miniPlayerVisible = FALSE,
                                           !.queue = <<>>,
                                           !.queueIndex = 0,
                                           !.queueIdCounter = 0,
                                           !.snapQueue = FALSE,
                                           !.snapTrack = FALSE]

\* a faulty stop, which keeps the queue
StopKeepingQueue(st) ==
    [AudioSetSrc(AudioPause(st), 0) EXCEPT !.currentTrack = Null,
                                           !.isPlaying = FALSE,
                                           !.miniPlayerVisible = FALSE,
                                           !.snapTrack = FALSE]

\* stop()
Stop(st) ==
    LET prevPlaylistId == st.currentTrack.playlistId
        s1 == AudioSetSrc(AudioPause(st), 0)
        s2 == [s1 EXCEPT !.currentTrack = Null,
                         !.isPlaying = FALSE,
                         !.miniPlayerVisible = FALSE,
                         !.queue = <<>>,
                         !.queueIndex = 0,
                         !.snapQueue = FALSE,
                         !.snapTrack = FALSE]
        s3 == IF prevPlaylistId # Undef /\ prevPlaylistId \in st.playlists
              THEN Invoke(s2, "updateUI", prevPlaylistId, -1, FALSE, 0)
              ELSE s2
    IN UpdateMiniPlayer(NotifySubscribers(s3))

\* a faulty registerPlaylist, which never calls the render callback
RegisterPlaylistSilently(st, playlistId) ==
    [st EXCEPT !.playlists = st.playlists \cup {playlistId},
               !.renderCallback[playlistId] = st.callbacksMade[playlistId]]

\* registerPlaylist(playlistId, tracks, updateUI, elementId), updateUI being
\* the callback made last for the playlist
RegisterPlaylist(st, playlistId) ==
    LET s1 == [st EXCEPT !.playlists = st.playlists \cup {playlistId},
                         !.renderCallback[playlistId] = st.callbacksMade[playlistId]]
    IN IF st.currentTrack.playlistId = playlistId
       THEN Invoke(s1, "updateUI", playlistId, st.currentTrack.index, st.isPlaying,
                   GetProgress(st))
       ELSE s1

\* a faulty unregisterPlaylist, which leaves the entry in the map
UnregisterKeepingEntry(st, playlistId) == st

\* unregisterPlaylist(playlistId)
UnregisterPlaylist(st, playlistId) ==
    [st EXCEPT !.playlists = st.playlists \ {playlistId},
               !.renderCallback[playlistId] = 0]

\* a faulty createPlaylist, which leaves the playlist mounted before it
\* registered
CreatePlaylistKeepingPrevious(st, playlistId, tracksData) ==
    LET s1 == [st EXCEPT !.activePlaylistId = playlistId]
    IN IF Len(tracksData) = 0 THEN s1
       ELSE RegisterPlaylist(
                [s1 EXCEPT !.views = s1.views \cup {playlistId},
                           !.callbacksMade[playlistId] = s1.callbacksMade[playlistId] + 1],
                playlistId)

\* createPlaylist(container, playlistId) of the audio hydration module, for a
\* container holding the track elements tracksData: the playlist mounted
\* before is unregistered, and a container with tracks gets its rows and is
\* registered with a render callback made for this mount (the getState() that
\* follows only reads)
CreatePlaylist(st, playlistId, tracksData) ==
    LET s1 == IF st.activePlaylistId # 0
              THEN UnregisterPlaylist(st, st.activePlaylistId)
              ELSE st
        s2 == [s1 EXCEPT !.activePlaylistId = playlistId]
    IN IF Len(tracksData) = 0 THEN s2
       ELSE RegisterPlaylist(
                [s2 EXCEPT !.views = s2.views \cup {playlistId},
                           !.callbacksMade[playlistId] = s2.callbacksMade[playlistId] + 1],
                playlistId)

\* onSeek(index, percent) of a playlist view, a click on a row's waveform: a
\* track that is not the current one is started and a timer is set to seek
\* 100 ms later; the current track is sought at once
OnSeek(st, playlistId, index, pos, rnd) ==
    LET track == PlaylistTracks(playlistId)[index + 1]
    IN IF st.currentTrack.index # index \/ st.currentTrack.src # track.src
       THEN [PlayTrack(st, track, playlistId, RouteOf(playlistId), rnd)
                EXCEPT !.seekTimers = st.seekTimers \cup {[src |-> track.src, pos |-> pos]}]
       ELSE Seek(st, pos)

\* the timer tm of onSeek fires: seek(percent)
SeekTimerFired(st, tm) ==
    Seek([st EXCEPT !.seekTimers = st.seekTimers \ {tm}], tm.pos)

\* cleanupAudio(), which the site runs on a route change
CleanupAudio(st) ==
    IF st.activePlaylistId # 0
    THEN [UnregisterPlaylist(st, st.activePlaylistId) EXCEPT !.activePlaylistId = 0]
    ELSE st

----------------------------------------------------------------------------
(* The handle's events, as initAudioController wires them *)

\* the 'play' listener
OnPlay(st) == NotifySubscribers(UpdatePlaylistUI([st EXCEPT !.isPlaying = TRUE]))

\* the 'pause' listener
OnPause(st) == NotifySubscribers(UpdatePlaylistUI([st EXCEPT !.isPlaying = FALSE]))

\* handleTrackEnd()
HandleTrackEnd(st) == PlayNext(st)

\* the task the handle queued when playback reached the end: an element still
\* at its end and not paused pauses and fires pause, then ended fires
OnEndedTask(st) ==
    LET s1 == IF st.audio.currentTime = Duration /\ ~st.audio.paused
              THEN OnPause([st EXCEPT !.audio.paused = TRUE])
              ELSE st
    IN HandleTrackEnd(s1)

\* the listener(s) of event e
Dispatch(st, e) ==
    IF e = "play" THEN OnPlay(st)
    ELSE IF e = "pause" THEN OnPause(st)
    ELSE OnEndedTask(st)

\* the playback positions the model tells apart: the start, past the restart
\* threshold of playPrev, and the end of the track
Positions == {0, RestartThreshold + 1, Duration}

\* handleTimeUpdate()
HandleTimeUpdate(st) == UpdateMiniPlayer(UpdatePlaylistUI(st))

\* the handle plays on to position t and fires timeupdate; at the end of the
\* track it queues ended
Advance(st, t) ==
    HandleTimeUpdate(
        [st EXCEPT !.audio.currentTime = t,
                   !.events = IF t = Duration THEN Append(st.events, "ended")
                              ELSE st.events])

----------------------------------------------------------------------------
(* The paged PDF viewer (src/components/pdf.hydrate.js): its _pdfState, the
   active dot, the page counter, and the goToSlide calls that wait for a page
   to render.  Slide indexes are 0-based as in the source. *)

\* the values of data-pages
PageModes == {"single", "dual", "dual-cover"}

\* the while loop of buildSlideStructure: pairs of pages from pageIndex on
RECURSIVE PairsFrom(_, _)
PairsFrom(pageIndex, totalPages) ==
    IF pageIndex > totalPages THEN <<>>
    ELSE IF pageIndex + 1 <= totalPages
         THEN <<[pages |-> <<pageIndex, pageIndex + 1>>]>>
                  \o PairsFrom(pageIndex + 2, totalPages)
         ELSE <<[pages |-> <<pageIndex>>]>>

\* buildSlideStructure(state)
BuildSlideStructure(pages, totalPages) ==
    IF pages \notin {"dual", "dual-cover"}
    THEN [i \in 1..totalPages |-> [pages |-> <<i>>]]
    ELSE IF pages = "dual-cover" /\ 1 <= totalPages
         THEN <<[pages |-> <<1>>]>> \o PairsFrom(2, totalPages)
         ELSE PairsFrom(1, totalPages)

\* a page without a PDF viewer
NoViewer ==
    [slides |-> <<>>, currentSlideIndex |-> 0, currentPage |-> 0, activeDot |-> 0,
     counter |-> 0, renderedPages |-> {}, rendering |-> {}, going |-> {},
     listening |-> FALSE]

\* updateCounter(container): the counter shows the pages of the slide at
\* currentSlideIndex (kept as that slide's index)
UpdateCounter(v) == [v EXCEPT !.counter = v.currentSlideIndex]

\* updateDots(container, activeIndex)
UpdateDots(v, activeIndex) == [v EXCEPT !.activeDot = activeIndex]

\* renderPage(container, pageNum, canvas) up to its first await: a page whose
\* cache key is set returns at once, another sets its key and starts to render
RenderPage(v, pageNum) ==
    IF pageNum \in v.renderedPages THEN v
    ELSE [v EXCEPT !.renderedPages = v.renderedPages \cup {pageNum},
                   !.rendering = v.rendering \cup {pageNum}]

\* goToSlide from the k-th canvas of its slide on: the loop runs on through
\* pages that return at once and stops at a page that starts to render, the
\* call waiting for it; after the last canvas currentPage, the dots and the
\* counter are written (and buildPagedViewer, which awaited its first call,
\* adds the track's listeners)
RECURSIVE GoToSlideFrom(_, _, _)
GoToSlideFrom(v, call, k) ==
    LET pages == v.slides[call.slide + 1].pages
    IN IF k > Len(pages)
       THEN UpdateCounter(UpdateDots(
                [v EXCEPT !.currentPage = pages[1],
                          !.listening = v.listening \/ call.first],
                call.slide))
       ELSE IF pages[k] \in v.renderedPages
            THEN GoToSlideFrom(v, call, k + 1)
            ELSE [RenderPage(v, pages[k]) EXCEPT
                      !.going = v.going \cup {[slide |-> call.slide, first |-> call.first,
                                               at |-> k]}]

\* goToSlide(container, slideIndex)
GoToSlide(v, slideIndex, first) ==
    LET v1 == [v EXCEPT !.currentSlideIndex = slideIndex]
    IN IF 0 <= slideIndex /\ slideIndex < Len(v.slides)
       THEN GoToSlideFrom(v1, [slide |-> slideIndex, first |-> first], 1)
       ELSE v1

\* navigateSlide(container, direction)
NavigateSlide(v, direction) ==
    LET wanted == v.currentSlideIndex + direction
        capped == IF wanted < Len(v.slides) - 1 THEN wanted ELSE Len(v.slides) - 1
        newIndex == IF capped > 0 THEN capped ELSE 0
    IN GoToSlide(v, newIndex, FALSE)

\* the render of page pageNum ends (or fails, which renderPage catches): the
\* goToSlide call that awaited it goes on
RenderDone(v, pageNum) ==
    LET v1 == [v EXCEPT !.rendering = v.rendering \ {pageNum}]
        waiting == {c \in v.going : v.slides[c.slide + 1].pages[c.at] = pageNum}
    IN IF waiting = {} THEN v1
       ELSE LET c == CHOOSE c \in waiting : TRUE
            IN GoToSlideFrom([v1 EXCEPT !.going = v.going \ {c}],
                             [slide |-> c.slide, first |-> c.first], c.at + 1)

\* the canvases of a slide, rendered without waiting (canvases.forEach)
RECURSIVE RenderAll(_, _, _)
RenderAll(v, pages, k) ==
    IF k > Len(pages) THEN v ELSE RenderAll(RenderPage(v, pages[k]), pages, k + 1)

\* updateSlideFromScroll(container), the track being scrolled to slide
\* newSlideIndex
UpdateSlideFromScroll(v, newSlideIndex) ==
    IF Len(v.slides) = 0 \/ newSlideIndex = v.currentSlideIndex THEN v
    ELSE LET pages == v.slides[newSlideIndex + 1].pages
             v1 == [v EXCEPT !.currentSlideIndex = newSlideIndex,
                             !.currentPage = pages[1]]
         IN RenderAll(UpdateCounter(UpdateDots(v1, newSlideIndex)), pages, 1)

\* buildPagedViewer(container) up to the await of its goToSlide(container, 0),
\* for a document of NumPages pages and data-start 1
BuildPagedViewer(pages) ==
    GoToSlide([NoViewer EXCEPT !.slides = BuildSlideStructure(pages, NumPages),
                               !.currentPage = 1],
              0, TRUE)

----------------------------------------------------------------------------
(* The controller driven by its views, the mini-player and the handle *)

\* the bounds of the model, as a guard on the state a step leads to
WithinBounds(st) ==
    /\ Len(st.events) <= MaxEvents
    /\ st.queueIdCounter <= MaxIds
    /\ \A pid \in PlaylistIds : st.callbacksMade[pid] <= MaxMounts

\* a step of the controller that leaves the scenario histories alone
Step(st) ==
    /\ WithinBounds(st)
    /\ Install(st)
    /\ UNCHANGED <<histVars, pdf>>

\* a track row's play button (or waveform) of a mounted playlist view
DoPlayTrack ==
    \E pid \in views :
        \E i \in 1..TracksIn(pid), rnd \in RandChoices(TracksIn(pid) - 1) :
            Step(PlayTrack(State, Track(i), pid, RouteOf(pid), rnd))

\* a click on an item of the mini-player's queue list
DoSelectQueueItem ==
    \E i \in 0..(Len(queue) - 1) : Step(PlayFromQueue(State, i))

DoTogglePlay == Step(TogglePlay(State))

DoPause == Step(Pause(State))

DoSeek == \E pos \in Positions : Step(Seek(State, pos))

DoPlayNext == Step(PlayNext(State))

DoPlayPrev == Step(PlayPrev(State))

DoStop == Step(Stop(State))

\* a track row's "+" button
DoAddToQueue ==
    /\ Len(queue) < MaxQueue
    /\ \E pid \in views :
           \E i \in 1..TracksIn(pid) : Step(AddToQueue(State, Track(i)))

\* the remove button of a queue item
DoRemoveFromQueue ==
    \E i \in 0..(Len(queue) - 1) : Step(RemoveFromQueue(State, i))

\* a queue item dropped on another
DoReorderQueue ==
    \E from \in 0..(Len(queue) - 1), to \in 0..(Len(queue) - 1) :
        from # to /\ Step(ReorderQueue(State, from, to))

DoToggleShuffle ==
    \E rnd \in RandChoices(IF Len(queue) > 1 THEN Len(queue) - 1 ELSE 1) :
        Step(ToggleShuffle(State, rnd))

DoToggleLoop == Step(ToggleLoop(State))

DoRegisterPlaylist ==
    \E pid \in views : pid \notin playlists /\ Step(RegisterPlaylist(State, pid))

DoUnregisterPlaylist ==
    \E pid \in playlists : Step(UnregisterPlaylist(State, pid))

\* a caller subscribes a callback
DoSubscribe == \E cb \in 1..MaxCallbacks : cb \notin subscribers /\ Step(Subscribe(State, cb))

\* a caller runs the function subscribe returned to it
DoUnsubscribe == \E cb \in subscribers \ {0} : Step(Unsubscribe(State, cb))

\* the event loop runs the handle's oldest queued event task
DeliverEvent ==
    /\ events # <<>>
    /\ Step(Dispatch([State EXCEPT !.events = Tail(events)], Head(events)))

\* playback progresses
DoAdvance ==
    /\ audio.src # 0 /\ ~audio.paused
    /\ \E t \in Positions : t > audio.currentTime /\ Step(Advance(State, t))

\* a decode the controller waits for succeeds or fails
WaveformSettles ==
    \E s \in wavePending, ok \in BOOLEAN : Step(WaveformSettled(State, s, ok))

\* the controller's variables hold the state st
Holds(st) ==
    /\ currentTrack = st.currentTrack
    /\ isPlaying = st.isPlaying
    /\ miniPlayerVisible = st.miniPlayerVisible
    /\ playlists = st.playlists
    /\ renderCallback = st.renderCallback
    /\ callbacksMade = st.callbacksMade
    /\ queue = st.queue
    /\ queueIndex = st.queueIndex
    /\ shuffle = st.shuffle
    /\ loop = st.loop
    /\ queueIdCounter = st.queueIdCounter
    /\ audio = st.audio
    /\ events = st.events
    /\ waveformCache = st.waveformCache
    /\ wavePending = st.wavePending
    /\ online = st.online
    /\ views = st.views
    /\ activePlaylistId = st.activePlaylistId
    /\ seekTimers = st.seekTimers
    /\ subscribers = st.subscribers
    /\ snapQueue = st.snapQueue
    /\ snapTrack = st.snapTrack

\* no scenario has started, and the page has no PDF viewer
NoHistory ==
    /\ calls = 0
    /\ startLen = 0
    /\ waveCalls = <<>>
    /\ pdf = NoViewer

\* a page with playlist view pid has loaded: initPlaylists() has initialised
\* the controller and createPlaylist has registered the view
PageLoaded(pid, net) ==
    CreatePlaylist([InitState EXCEPT !.online = net], pid, PlaylistTracks(pid))

(* Playback: the short playlist's page, every playback operation, the handle's
   events and the waveform decodes *)

Init == Holds(PageLoaded(1, TRUE)) /\ NoHistory

Next ==
    \/ DoPlayTrack
    \/ DoSelectQueueItem
    \/ DoTogglePlay
    \/ DoPause
    \/ DoSeek
    \/ DoPlayNext
    \/ DoPlayPrev
    \/ DoStop
    \/ DoToggleLoop
    \/ DoUnregisterPlaylist
    \/ DoRegisterPlaylist
    \/ DeliverEvent
    \/ DoAdvance
    \/ WaveformSettles

Spec == Init /\ [][Next]_vars

(* Queue: the short playlist's page with the network down, every operation
   that reads or writes the queue, and the passing of playback time *)

InitQueue == Holds(PageLoaded(1, FALSE)) /\ NoHistory

NextQueue ==
    \/ DoPlayTrack
    \/ DoSelectQueueItem
    \/ DoPlayNext
    \/ DoPlayPrev
    \/ DoStop
    \/ DoAddToQueue
    \/ DoRemoveFromQueue
    \/ DoReorderQueue
    \/ DoToggleShuffle
    \/ DoToggleLoop
    \/ DoAdvance

SpecQueue == InitQueue /\ [][NextQueue]_vars

(* Long playlist: the long playlist's page, where a population has a start
   track and at least two others to order *)

InitLong == Holds(PageLoaded(2, FALSE)) /\ NoHistory

NextLong ==
    \/ DoPlayTrack
    \/ DoSelectQueueItem
    \/ DoStop
    \/ DoRemoveFromQueue
    \/ DoToggleShuffle
    \/ DoToggleLoop
    \/ DoPlayNext

SpecLong == InitLong /\ [][NextLong]_vars

(* Next: a queue of startLen items whose first item is playing, loop on or
   off, and nothing but playNext calls - the next button and the handle's
   ended event - counted in calls, with the rest of the handle's events and
   the passing of playback time *)

\* a step that is one more call of playNext
CountedStep(st) ==
    /\ calls < MaxCalls
    /\ WithinBounds(st)
    /\ Install(st)
    /\ calls' = calls + 1
    /\ UNCHANGED <<startLen, waveCalls, pdf>>

\* the short playlist's first track was started, which populated the queue,
\* and the queue was then cut or extended to n items
QueueOf(n) ==
    LET s0 == PlayTrack(PageLoaded(1, FALSE), Track(1), 1, RouteOf(1), <<1>>)
    IN IF n < ListLen THEN RemoveFromQueue(s0, 1)
       ELSE IF n > ListLen THEN AddToQueue(s0, Track(1))
       ELSE s0

\* the first item of a queue of n items plays: its play event has been
\* delivered
FirstItemPlaying(n, lp) ==
    LET s0 == QueueOf(n)
        s1 == IF lp THEN ToggleLoop(s0) ELSE s0
    IN Dispatch([s1 EXCEPT !.events = Tail(s1.events)], Head(s1.events))

\* the mini-player's next button
NextButton == CountedStep(PlayNext(State))

\* the event loop runs the handle's oldest event task; an ended event calls
\* playNext through handleTrackEnd
DeliverCounted ==
    /\ events # <<>>
    /\ LET st == Dispatch([State EXCEPT !.events = Tail(events)], Head(events))
       IN IF Head(events) = "ended" THEN CountedStep(st) ELSE Step(st)

InitNext ==
    \E n \in (ListLen - 1)..(ListLen + 1), lp \in BOOLEAN :
        /\ Holds(FirstItemPlaying(n, lp))
        /\ calls = 0
        /\ startLen = n
        /\ waveCalls = <<>>
        /\ pdf = NoViewer

NextNext ==
    \/ NextButton
    \/ DeliverCounted
    \/ DoAdvance

SpecNext == InitNext /\ [][NextNext]_vars

(* Wave: the track rows of the short playlist's page call getWaveformData,
   each call kept in waveCalls, while the controller makes its own calls for
   the tracks it starts *)

\* the calls of waveCalls, other than call i, whose decode of s is in flight
InFlight(s, i) ==
    {j \in (DOMAIN waveCalls) \ {i} : waveCalls[j].src = s /\ ~waveCalls[j].done}

\* no decode of s but call i's is in flight, the controller's included
Alone(s, i) == InFlight(s, i) = {} /\ s \notin wavePending

\* a track row's loadWaveform(): getWaveformData(s) returns the cached object
\* at once or starts a fetch and decode
LoadWaveform ==
    /\ Len(waveCalls) < MaxWaveCalls
    /\ online
    /\ \E pid \in views : \E s \in 1..TracksIn(pid) :
           LET hit == waveformCache[s] # 0
               call == [src |-> s, done |-> hit, ok |-> hit,
                        result |-> waveformCache[s],
                        decoded |-> ~hit,
                        resolved |-> {j \in DOMAIN waveCalls : waveCalls[j].done},
                        alone |-> Alone(s, 0)]
           IN waveCalls' = Append(waveCalls, call)
    /\ UNCHANGED <<ctlVars, calls, startLen, pdf>>

\* the fetch and decode of a track row's call end: a success caches and
\* returns a new result object, a failure returns a new placeholder object
\* (the negative numbers) and caches nothing
LoadWaveformSettles ==
    \E i \in DOMAIN waveCalls, ok \in BOOLEAN :
        /\ ~waveCalls[i].done
        /\ LET s == waveCalls[i].src
               st == DecodeDone(State, s, ok)
           IN /\ WithinBounds(st)
              /\ Install(st)
              /\ waveCalls' = [waveCalls EXCEPT
                                  ![i] = [@ EXCEPT !.done = TRUE,
                                                   !.ok = ok,
                                                   !.result = IF ok THEN st.waveformCache[s]
                                                              ELSE 0 - i,
                                                   !.alone = Alone(s, i)]]
        /\ UNCHANGED <<calls, startLen, pdf>>

InitWave == Holds(PageLoaded(1, TRUE)) /\ NoHistory

NextWave ==
    \/ LoadWaveform
    \/ LoadWaveformSettles
    \/ DoPlayTrack
    \/ WaveformSettles

SpecWave == InitWave /\ [][NextWave]_vars

(* Snap: a caller of getState() keeps the returned object and writes to it *)

\* getState(): the returned object holds state.queue and state.currentTrack
\* themselves
GetState(st) ==
    [st EXCEPT !.snapQueue = TRUE,
               !.snapTrack = st.currentTrack # Null]

\* snapshot.queue.push(item), on the array the snapshot holds
SnapshotPush(st, item) ==
    IF st.snapQueue THEN [st EXCEPT !.queue = Append(st.queue, item)] ELSE st

\* snapshot.queue.pop()
SnapshotPop(st) ==
    IF st.snapQueue /\ Len(st.queue) > 0
    THEN [st EXCEPT !.queue = SubSeq(st.queue, 1, Len(st.queue) - 1)]
    ELSE st

\* snapshot.currentTrack.index = v, on the object the snapshot holds
SnapshotSetIndex(st, v) ==
    IF st.snapTrack THEN [st EXCEPT !.currentTrack.index = v] ELSE st

\* the objects a caller may push: a track row's track without a queue id
ForeignItems ==
    {[src |-> i, index |-> i - 1, originalIndex |-> Undef, id |-> Undef] : i \in 1..ListLen}

DoGetState == Step(GetState(State))

CallerPushes ==
    /\ Len(queue) < MaxQueue
    /\ \E item \in ForeignItems : Step(SnapshotPush(State, item))

CallerPops == Step(SnapshotPop(State))

CallerSetsIndex == \E v \in 0..(ListLen - 1) : Step(SnapshotSetIndex(State, v))

InitSnap == Holds(PageLoaded(1, FALSE)) /\ NoHistory

NextSnap ==
    \/ DoGetState
    \/ CallerPushes
    \/ CallerPops
    \/ CallerSetsIndex
    \/ DoPlayTrack
    \/ DoAddToQueue
    \/ DoStop

SpecSnap == InitSnap /\ [][NextSnap]_vars

(* Subs: callers subscribe and unsubscribe callbacks while tracks are
   started, paused, queued, removed and stopped *)

InitSubs == Holds(PageLoaded(1, FALSE)) /\ NoHistory

NextSubs ==
    \/ DoSubscribe
    \/ DoUnsubscribe
    \/ DoPlayTrack
    \/ DoTogglePlay
    \/ DeliverEvent
    \/ DoAddToQueue
    \/ DoRemoveFromQueue
    \/ DoStop

SpecSubs == InitSubs /\ [][NextSubs]_vars

(* Mount: playlist views are mounted by createPlaylist, one after another on
   the same page or after a route change, which runs cleanupAudio and takes
   the page's views away, while tracks are started, advance and are stopped *)

\* createPlaylist for a container with or without track elements
DoCreatePlaylist ==
    \E pid \in PlaylistIds :
        \E tracksData \in {<<>>, PlaylistTracks(pid)} :
            Step(CreatePlaylist(State, pid, tracksData))

\* a route change: cleanupAudio() runs and the page's views are destroyed
DoCleanupAudio == Step([CleanupAudio(State) EXCEPT !.views = {}])

InitMount == Holds([InitState EXCEPT !.online = FALSE]) /\ NoHistory

NextMount ==
    \/ DoCreatePlaylist
    \/ DoCleanupAudio
    \/ DoPlayTrack
    \/ DoPlayNext
    \/ DoStop
    \/ DeliverEvent
    \/ DoAdvance

SpecMount == InitMount /\ [][NextMount]_vars

(* Seek: clicks on the waveforms of the short playlist's rows, their timers,
   and whatever else changes the current track before a timer fires *)

\* a click on a row's waveform
DoWaveformClick ==
    \E pid \in views :
        \E i \in 1..TracksIn(pid), pos \in Positions \ {Duration},
           rnd \in RandChoices(TracksIn(pid) - 1) :
            Step(OnSeek(State, pid, i - 1, pos, rnd))

\* the event loop runs a timer of onSeek
SeekTimerFires == \E tm \in seekTimers : Step(SeekTimerFired(State, tm))

InitSeek == Holds(PageLoaded(1, FALSE)) /\ NoHistory

NextSeek ==
    \/ DoWaveformClick
    \/ SeekTimerFires
    \/ DoPlayTrack
    \/ DoPlayNext
    \/ DoStop
    \/ DeliverEvent
    \/ DoAdvance

SpecSeek == InitSeek /\ [][NextSeek]_vars

(* Pdf: a page with a paged PDF viewer, its buttons, dots and track, and its
   page renders ending in any order *)

\* a step of the PDF viewer, which leaves the audio controller alone
PdfStep(v) ==
    /\ pdf' = v
    /\ UNCHANGED <<ctlVars, histVars>>

\* the previous and next buttons
DoNavigateSlide == \E direction \in {-1, 1} : PdfStep(NavigateSlide(pdf, direction))

\* a click on a dot
DoGoToSlide ==
    /\ Len(pdf.slides) > 1
    /\ \E i \in 0..(Len(pdf.slides) - 1) : PdfStep(GoToSlide(pdf, i, FALSE))

\* a page render ends
RenderEnds == \E pageNum \in pdf.rendering : PdfStep(RenderDone(pdf, pageNum))

\* the track is scrolled to a slide and its scroll listener runs
TrackScrolls ==
    /\ pdf.listening
    /\ \E i \in 0..(Len(pdf.slides) - 1) : PdfStep(UpdateSlideFromScroll(pdf, i))

InitPdf ==
    /\ Holds(InitState)
    /\ calls = 0
    /\ startLen = 0
    /\ waveCalls = <<>>
    /\ \E pages \in PageModes : pdf = BuildPagedViewer(pages)

NextPdf ==
    \/ DoNavigateSlide
    \/ DoGoToSlide
    \/ RenderEnds
    \/ TrackScrolls

SpecPdf == InitPdf /\ [][NextPdf]_vars

----------------------------------------------------------------------------
(* Properties.  A property of one call is stated over every reachable state
   the call can be made in: the handler, applied to that state, yields a
   state with the property. *)

\* the ids of the items of a queue
Ids(q) == {q[k].id : k \in 1..Len(q)}

\* C1: whenever the queue is non-empty, queueIndex is one of its positions
\* (checked over every sequence of the queue's operations, SpecQueue)
C1_QueueIndexValid ==
    Len(queue) > 0 => (0 <= queueIndex /\ queueIndex < Len(queue))

\* C1 witness: items were removed from a queue being played and queueIndex
\* points at the last item left
C1_Witness ==
    /\ Len(queue) = 2
    /\ queueIndex = 1
    /\ queueIdCounter = MaxIds
    /\ currentTrack # Null

\* C4 as claimed: with a track loaded and currentTime > 3, playPrev rewinds to
\* 0 and leaves queueIndex, queue and currentTrack alone, whatever the queue
C4_PlayPrevAlwaysRestarts ==
    (currentTrack # Null /\ audio.currentTime > RestartThreshold)
        => LET r == PlayPrev(State)
           IN /\ r.audio.currentTime = 0
              /\ r.queueIndex = queueIndex
              /\ r.queue = queue
              /\ r.currentTrack = currentTrack

\* C5: toggleShuffle turning shuffle on, on a queue of more than one item,
\* puts the item at queueIndex first, sets queueIndex to 0 and keeps the other
\* items, each once, in positions 1..len-1
C5_ShuffleKeepsCurrentFirst ==
    (~shuffle /\ Len(queue) > 1)
        => \A rnd \in RandChoices(Len(queue) - 1) :
               LET r == ToggleShuffle(State, rnd)
                   n == Len(queue)
               IN /\ r.shuffle
                  /\ Len(r.queue) = n
                  /\ r.queueIndex = 0
                  /\ r.queue[1] = queue[queueIndex + 1]
                  /\ {r.queue[k] : k \in 2..n}
                         = {queue[k] : k \in (1..n) \ {queueIndex + 1}}
                  /\ \A j, k \in 1..n : r.queue[j].id = r.queue[k].id => j = k

\* C5 witness: shuffle was turned on while the last of three items was playing,
\* and the two others changed places
C5_Witness ==
    /\ shuffle
    /\ queueIndex = 0
    /\ Len(queue) = 3
    /\ queue[1].originalIndex = 2
    /\ queue[2].originalIndex = 1
    /\ queue[3].originalIndex = 0
    /\ currentTrack.id = queue[1].id

\* C6: addPlaylistToQueue(tracks, s) makes the queue one item per track with
\* queueIndex 0: rotated to start at s when shuffle is off; tracks[s] first and
\* the others, each once, after it when shuffle is on
C6_PopulationOrder ==
    \A pid \in views :
        \A s \in 0..(TracksIn(pid) - 1), rnd \in RandChoices(TracksIn(pid) - 1) :
            LET tracks == PlaylistTracks(pid)
                n == Len(tracks)
                r == AddPlaylistToQueue(State, tracks, s, rnd)
            IN /\ r.queueIndex = 0
               /\ Len(r.queue) = n
               /\ \A k \in 1..n :
                      r.queue[k].src = tracks[r.queue[k].originalIndex + 1].src
               /\ ~shuffle =>
                      \A k \in 0..(n - 1) : r.queue[k + 1].originalIndex = (s + k) % n
               /\ shuffle =>
                      /\ r.queue[1].originalIndex = s
                      /\ {r.queue[k].originalIndex : k \in 2..n} = (0..(n - 1)) \ {s}

\* C6 witness: the queue was populated from the long playlist starting at its
\* last track, so the first tracks follow it
C6_Witness ==
    /\ ~shuffle
    /\ Len(queue) = TracksIn(2)
    /\ queueIndex = 0
    /\ queue[1].originalIndex = TracksIn(2) - 1
    /\ queue[2].originalIndex = 0
    /\ currentTrack.src = queue[1].src

\* C7: the id counter never goes back, every id that enters the queue is
\* greater than every id handed out before, and no two items share an id
C7_IdsFresh ==
    [][/\ queueIdCounter' >= queueIdCounter
       /\ \A k \in 1..Len(queue') :
              queue'[k].id \notin Ids(queue) => queue'[k].id > queueIdCounter
       /\ \A j, k \in 1..Len(queue') : queue'[j].id = queue'[k].id => j = k]_vars

\* C7 witness: after stop() cleared a populated queue, the queue was populated
\* again and holds later ids
C7_Witness ==
    /\ Len(queue) = ListLen
    /\ queue[1].id > ListLen
    /\ queue[1].originalIndex # Undef
    /\ queueIdCounter = 2 * ListLen

\* C10: stop() leaves the handle paused with no source, no current track, an
\* empty queue with queueIndex 0, isPlaying false and the mini-player hidden
C10_StopTearsDown ==
    LET r == Stop(State)
    IN /\ r.audio.paused
       /\ r.audio.src = 0
       /\ r.currentTrack = Null
       /\ r.queue = <<>>
       /\ r.queueIndex = 0
       /\ ~r.isPlaying
       /\ ~r.miniPlayerVisible

\* C10 witness: stop() was called during playback
C10_Witness ==
    /\ queueIdCounter > 0
    /\ currentTrack = Null
    /\ audio.src = 0
    /\ queue = <<>>
    /\ ~isPlaying
    /\ ~miniPlayerVisible

\* C2 as claimed: with loop off and item 0 of N playing, calls 1..N-1 of
\* playNext move queueIndex to 1..N-1, the Nth call pauses the handle and sets
\* isPlaying false leaving currentTrack, queue and queueIndex, and every
\* further call leaves currentTrack, queue, queueIndex and isPlaying unchanged
C2_PlayNextStopsAtEnd ==
    (startLen > 0 /\ ~loop) =>
        LET r == PlayNext(State)
        IN /\ Len(queue) = startLen
           /\ calls < startLen => queueIndex = calls
           /\ calls < startLen - 1 => r.queueIndex = calls + 1
           /\ calls = startLen - 1 =>
                  /\ r.audio.paused
                  /\ ~r.isPlaying
                  /\ r.currentTrack = currentTrack
                  /\ r.queue = queue
                  /\ r.queueIndex = queueIndex
           /\ calls >= startLen =>
                  /\ queueIndex = startLen - 1
                  /\ audio.paused
                  /\ currentTrack.src = queue[startLen].src
                  /\ r.currentTrack = currentTrack
                  /\ r.queue = queue
                  /\ r.queueIndex = queueIndex
                  /\ r.isPlaying = isPlaying

\* C3: with loop on and a queue of N >= 1 items, after k calls of playNext
\* from item 0 queueIndex is k mod N, currentTrack is the item there, and the
\* handle has not been stopped
C3_LoopCycles ==
    (startLen > 0 /\ loop) =>
        /\ Len(queue) = startLen
        /\ queueIndex = calls % startLen
        /\ currentTrack.src = queue[queueIndex + 1].src
        /\ audio.src = currentTrack.src
        /\ ~audio.paused
        /\ ~PlayNext(State).audio.paused

\* C3 witness: playNext has gone once round a looping queue of more than one
\* item and one item further
C3_Witness ==
    /\ loop
    /\ startLen > 1
    /\ calls = startLen + 1
    /\ queueIndex = 1

\* the pairs of calls C8 is about: call j for a source was made after call i
\* for the same source had resolved
Again(i, j) ==
    /\ i < j
    /\ waveCalls[i].src = waveCalls[j].src
    /\ i \in waveCalls[j].resolved

C9_SnapshotIsCopy ==
    LET s0 == GetState(State)
        unchanged(r) == /\ r.queue = queue
                        /\ r.queueIndex = queueIndex
                        /\ r.currentTrack = currentTrack
    IN /\ \A item \in ForeignItems : unchanged(SnapshotPush(s0, item))
       /\ unchanged(SnapshotPop(s0))
       /\ \A v \in 0..(ListLen - 1) : unchanged(SnapshotSetIndex(s0, v))

\* the handler's result r holds a call of playlist pid's render callback
\* with (index, playing, progress)
Rendered(r, pid, index, playing, progress) ==
    \E k \in DOMAIN r.out :
        /\ r.out[k].cb = "updateUI"
        /\ r.out[k].to = pid
        /\ r.out[k].index = index
        /\ r.out[k].playing = playing
        /\ r.out[k].progress = progress

\* C11 as claimed: stop() called while the current track belongs to a
\* registered playlist calls that playlist's render callback with no active
\* track (-1, not playing, progress 0), however the track became current.
\* Every track of the page belongs to the page's one playlist view.
C11_StopNotifiesPlaylist ==
    \A pid \in views :
        (currentTrack # Null /\ pid \in playlists)
            => Rendered(Stop(State), pid, -1, FALSE, 0)

\* C12: playTrack(track, playlistId, route) makes track the current track
\* (currentTrack.src, the handle's source, play requested, mini-player shown);
\* it populates the queue from the playlist, track first and queueIndex 0,
\* exactly when the queue was empty and playlistId is registered, and
\* otherwise leaves queue and queueIndex as they were
C12_PlayTrackEffect ==
    \A pid \in views :
        \A i \in 1..TracksIn(pid), rnd \in RandChoices(TracksIn(pid) - 1) :
            LET r == PlayTrack(State, Track(i), pid, RouteOf(pid), rnd)
            IN /\ r.currentTrack.src = i
               /\ r.currentTrack.index = i - 1
               /\ r.audio.src = i
               /\ ~r.audio.paused
               /\ r.events = <<"play">>
               /\ r.miniPlayerVisible
               /\ IF Len(queue) = 0 /\ pid \in playlists
                  THEN /\ Len(r.queue) = TracksIn(pid)
                       /\ r.queue[1].src = i
                       /\ r.queueIndex = 0
                  ELSE /\ r.queue = queue
                       /\ r.queueIndex = queueIndex

\* C12 witness: playTrack of the playlist's last track populated the empty
\* queue, that track first
C12_Witness ==
    /\ currentTrack.src = ListLen
    /\ currentTrack.playlistId = 1
    /\ Len(queue) = ListLen
    /\ queue[1].src = ListLen
    /\ queue[1].originalIndex = ListLen - 1
    /\ queueIndex = 0
    /\ miniPlayerVisible
    /\ events = <<"play">>

\* C13 as claimed: whenever currentTrack is non-null and the queue is
\* non-empty, queue[queueIndex] is the current track (same src)
C13_IndexAtCurrentTrack ==
    (currentTrack # Null /\ Len(queue) > 0 /\ queueIndex < Len(queue))
        => queue[queueIndex + 1].src = currentTrack.src

\* C14: removeFromQueue(i) with i # queueIndex, reorderQueue(from, to) and
\* toggleShuffle turning shuffle on leave queueIndex at the item (by id) it
\* was at; removeFromQueue(queueIndex) leaves queueIndex at
\* min(queueIndex, new length - 1), or 0 when the queue becomes empty
C14_IndexFollowsItem ==
    (Len(queue) > 0 /\ queueIndex < Len(queue)) =>
        LET n == Len(queue)
            cur == queue[queueIndex + 1].id
            same(r) == r.queue[r.queueIndex + 1].id = cur
            gone == RemoveFromQueue(State, queueIndex)
        IN /\ \A i \in (0..(n - 1)) \ {queueIndex} : same(RemoveFromQueue(State, i))
           /\ \A from, to \in 0..(n - 1) : same(ReorderQueue(State, from, to))
           /\ ~shuffle => \A rnd \in RandChoices(IF n > 1 THEN n - 1 ELSE 1) :
                              same(ToggleShuffle(State, rnd))
           /\ gone.queueIndex = IF n = 1 THEN 0
                                ELSE IF queueIndex < n - 2 THEN queueIndex
                                ELSE n - 2

\* C14 witness: the item being played, the oldest of three, was dragged to
\* the end of the queue and queueIndex went with it
C14_Witness ==
    /\ ~shuffle
    /\ Len(queue) = 3
    /\ queueIndex = 2
    /\ queue[3].id = 1
    /\ queue[1].id = 2
    /\ currentTrack.src = queue[3].src

\* the handler's result r holds an invocation of subscribed callback cb;
\* callback 0 is updateMiniPlayer, which the controller also calls by name
Notified(r, cb) ==
    \E k \in DOMAIN r.out :
        \/ r.out[k].cb = "subscriber" /\ r.out[k].to = cb
        \/ r.out[k].cb = "updateMiniPlayer" /\ cb = 0

\* C15 as claimed: every subscribed callback is invoked on every play event,
\* every pause event and every queue change (addToQueue, addPlaylistToQueue,
\* removeFromQueue, reorderQueue, toggleShuffle, stop)
C15_SubscribersNotified ==
    \A cb \in subscribers :
        LET n == Len(queue)
        IN /\ Notified(OnPlay(State), cb)
           /\ Notified(OnPause(State), cb)
           /\ Notified(Stop(State), cb)
           /\ \A rnd \in RandChoices(IF n > 1 THEN n - 1 ELSE 1) :
                  n = 0 \/ queueIndex >= n \/ Notified(ToggleShuffle(State, rnd), cb)
           /\ \A pid \in views : \A i \in 1..TracksIn(pid) :
                  /\ Notified(AddToQueue(State, Track(i)), cb)
                  /\ \A rnd \in RandChoices(TracksIn(pid) - 1) :
                         Notified(AddPlaylistToQueue(State, PlaylistTracks(pid), i - 1, rnd), cb)
           /\ \A i \in 0..(n - 1) : Notified(RemoveFromQueue(State, i), cb)
           /\ \A from, to \in 0..(n - 1) : Notified(ReorderQueue(State, from, to), cb)

\* every callback the handler invoked found the controller as the handler
\* left it: the current track, the queue, queueIndex, isPlaying and the
\* handle's source
Settled(r) ==
    \A k \in DOMAIN r.out :
        LET o == r.out[k].sees
        IN /\ o.currentTrack.src = r.currentTrack.src
           /\ o.currentTrack.index = r.currentTrack.index
           /\ o.currentTrack.playlistId = r.currentTrack.playlistId
           /\ o.queue = r.queue
           /\ o.queueIndex = r.queueIndex
           /\ o.isPlaying = r.isPlaying
           /\ o.src = r.audio.src

\* the operations other than playTrack leave no callback behind their
\* changes
SettledElsewhere ==
    LET n == Len(queue)
    IN /\ Settled(PlayNext(State))
       /\ Settled(PlayPrev(State))
       /\ Settled(Stop(State))
       /\ Settled(ToggleLoop(State))
       /\ Settled(OnPlay(State))
       /\ Settled(OnPause(State))
       /\ \A i \in 0..(n - 1) :
              /\ Settled(PlayFromQueue(State, i))
              /\ Settled(RemoveFromQueue(State, i))
              /\ \A to \in 0..(n - 1) : Settled(ReorderQueue(State, i, to))
       /\ \A pid \in views : \A i \in 1..TracksIn(pid) :
              Settled(AddToQueue(State, Track(i)))
       /\ \A pid \in PlaylistIds : Settled(RegisterPlaylist(State, pid))

\* C16 as claimed: no subscriber callback, playlist render callback or
\* mini-player render runs in the middle of an operation's state update: each
\* finds currentTrack, queue, queueIndex, isPlaying and the handle's source as
\* the operation leaves them
C16_CallbacksSeeFinalState ==
    /\ SettledElsewhere
    /\ \A pid \in views :
           \A i \in 1..TracksIn(pid), rnd \in RandChoices(TracksIn(pid) - 1) :
               Settled(PlayTrack(State, Track(i), pid, RouteOf(pid), rnd))

\* the operations other than playNext and stop leave isPlaying to the
\* listeners
IsPlayingLeftAlone ==
    LET n == Len(queue)
    IN /\ PlayPrev(State).isPlaying = isPlaying
       /\ TogglePlay(State).isPlaying = isPlaying
       /\ Pause(State).isPlaying = isPlaying
       /\ ToggleLoop(State).isPlaying = isPlaying
       /\ \A pos \in Positions : Seek(State, pos).isPlaying = isPlaying
       /\ \A pid \in views :
              \A i \in 1..TracksIn(pid), rnd \in RandChoices(TracksIn(pid) - 1) :
                  /\ PlayTrack(State, Track(i), pid, RouteOf(pid), rnd).isPlaying = isPlaying
                  /\ AddToQueue(State, Track(i)).isPlaying = isPlaying
       /\ \A i \in 0..(n - 1) :
              /\ PlayFromQueue(State, i).isPlaying = isPlaying
              /\ RemoveFromQueue(State, i).isPlaying = isPlaying
              /\ \A to \in 0..(n - 1) : ReorderQueue(State, i, to).isPlaying = isPlaying
       /\ \A rnd \in RandChoices(IF n > 1 THEN n - 1 ELSE 1) :
              n = 0 \/ ToggleShuffle(State, rnd).isPlaying = isPlaying

\* C17 as claimed: only the listeners of the handle's play and pause events
\* write isPlaying; no operation (playTrack, playNext, playPrev, togglePlay,
\* stop, the queue mutations) changes it
C17_OnlyListenersWriteIsPlaying ==
    /\ IsPlayingLeftAlone
    /\ PlayNext(State).isPlaying = isPlaying
    /\ Stop(State).isPlaying = isPlaying

\* C18 as claimed: in every state between operations isPlaying is true
\* exactly when the handle is not paused, whatever the interleaving of
\* operations with the delivery of the handle's events
C18_IsPlayingMirrorsHandle == isPlaying <=> ~audio.paused


\* C19: in every state between operations currentTrack is null exactly when
\* the handle has no source, and a non-null currentTrack has the handle's
\* source as its src
C19_TrackIffSource ==
    /\ currentTrack = Null <=> audio.src = 0
    /\ currentTrack # Null => audio.src = currentTrack.src

\* C19 witness: playNext moved playback to the second queue item, whose
\* source the handle now has
C19_Witness ==
    /\ queueIndex = 1
    /\ currentTrack.id = queue[2].id
    /\ currentTrack.src = 2
    /\ audio.src = 2
    /\ ~audio.paused

\* C20 as claimed: a non-null currentTrack always carries the playlistId and
\* the sourceRoute of the playlist view playback was started from, also after
\* playNext, playPrev, the ended event or a queue-item selection
C20_TrackRefShape ==
    currentTrack # Null =>
        /\ currentTrack.playlistId \in views
        /\ currentTrack.sourceRoute \in {RouteOf(pid) : pid \in views}

\* C21: a waveform result for source s that resolves when currentTrack is null
\* or has another source leaves currentTrack unchanged, and one that resolves
\* while currentTrack has source s sets its peaks and duration and nothing
\* else; playTrack and playFromQueue leave the handle on the track's source
\* and playing, whether or not the result is there
C21_WaveformOnlyForCurrentSource ==
    /\ \A s \in wavePending, ok \in BOOLEAN :
           LET r == WaveformSettled(State, s, ok)
           IN IF currentTrack # Null /\ currentTrack.src = s
              THEN r.currentTrack =
                       [currentTrack EXCEPT !.peaks = IF ok THEN s ELSE 0,
                                            !.duration = IF ok THEN Duration ELSE 0]
              ELSE r.currentTrack = currentTrack
    /\ \A pid \in views :
           \A i \in 1..TracksIn(pid), rnd \in RandChoices(TracksIn(pid) - 1) :
               LET r == PlayTrack(State, Track(i), pid, RouteOf(pid), rnd)
               IN /\ r.audio.src = i
                  /\ ~r.audio.paused
                  /\ (waveformCache[i] = 0 => r.currentTrack.peaks = Undef)
    /\ \A qi \in 0..(Len(queue) - 1) :
           LET r == PlayFromQueue(State, qi)
           IN /\ r.audio.src = queue[qi + 1].src
              /\ ~r.audio.paused
              /\ (waveformCache[queue[qi + 1].src] = 0 => r.currentTrack.peaks = Undef)

\* C21 witness: the decode of one source is in flight while a track of another
\* source, started after it, is current and playing without its own data
C21_Witness ==
    \E s \in wavePending :
        /\ currentTrack # Null
        /\ currentTrack.src # s
        /\ currentTrack.peaks = Undef
        /\ ~audio.paused

\* C22: a getWaveformData(src) whose fetch or decode fails resolves, to a flat
\* placeholder of duration 0, and leaves the waveform cache as it was; while
\* no decode of src has succeeded, a call made after the failed one has
\* resolved runs the fetch and decode again
C22_FailureNotCached ==
    /\ \A s \in Srcs : DecodeDone(State, s, FALSE).waveformCache = waveformCache
    /\ \A s \in wavePending :
           LET r == WaveformSettled(State, s, FALSE)
           IN /\ r.waveformCache = waveformCache
              /\ s \notin r.wavePending
              /\ currentTrack.src = s =>
                     (r.currentTrack.peaks = 0 /\ r.currentTrack.duration = 0)
              /\ waveformCache[s] = 0 => s \in RequestWaveform(r, s).wavePending
    /\ \A i \in DOMAIN waveCalls :
           (waveCalls[i].done /\ ~waveCalls[i].ok) =>
               (waveCalls[i].decoded /\ waveCalls[i].result = 0 - i)
    /\ \A i, j \in DOMAIN waveCalls :
           (Again(i, j) /\ ~waveCalls[i].ok /\ waveformCache[waveCalls[i].src] = 0)
               => waveCalls[j].decoded

\* C22 witness: a call failed and resolved to its placeholder, nothing was
\* cached for its source, and a later call for that source decoded again
C22_Witness ==
    \E i, j \in DOMAIN waveCalls :
        /\ Again(i, j)
        /\ waveCalls[i].done
        /\ ~waveCalls[i].ok
        /\ waveCalls[i].result = 0 - i
        /\ waveformCache[waveCalls[i].src] = 0
        /\ waveCalls[j].decoded

C25_OnlyActiveRegistered ==
    /\ playlists \subseteq {activePlaylistId}
    /\ Cardinality(playlists) <= 1
    /\ \A pid \in PlaylistIds : pid \in playlists <=> renderCallback[pid] # 0

\* C25 witness: a page with both playlist views, the short one mounted first:
\* only the long one is registered
C25_Witness ==
    /\ views = {1, 2}
    /\ activePlaylistId = 2
    /\ playlists = {2}
    /\ callbacksMade[1] > 0

\* the render callbacks a handler run r invoked are those of playlist pid, each
\* being the function fn
OnlyRenders(r, pid, fn) ==
    \A k \in DOMAIN r.out :
        r.out[k].cb = "updateUI" => (r.out[k].to = pid /\ r.out[k].fn = fn)

\* C26: no event and no operation (timeupdate, play, pause, ended, stop,
\* playNext, playPrev) invokes a render callback of a playlist that was
\* unregistered and not registered again, and for a playlist registered again
\* the callback invoked is the one of its last registration, never an earlier
\* one.  The playlist mounted last is the only one not unregistered since.
C26_UnregisteredNeverRendered ==
    LET pid == activePlaylistId
        fn == IF pid = 0 THEN 0 ELSE callbacksMade[pid]
    IN /\ \A t \in Positions : OnlyRenders(Advance(State, t), pid, fn)
       /\ OnlyRenders(OnPlay(State), pid, fn)
       /\ OnlyRenders(OnPause(State), pid, fn)
       /\ OnlyRenders(OnEndedTask(State), pid, fn)
       /\ OnlyRenders(Stop(State), pid, fn)
       /\ OnlyRenders(PlayNext(State), pid, fn)
       /\ OnlyRenders(PlayPrev(State), pid, fn)

\* C26 witness: the short playlist was mounted twice and is unregistered again
\* while a track started from it is playing and its play event is due
C26_Witness ==
    /\ callbacksMade[1] = 2
    /\ 1 \notin playlists
    /\ currentTrack.playlistId = 1
    /\ ~audio.paused
    /\ events # <<>>

\* C27 as claimed: in every reachable state the mini-player is visible exactly
\* when a track is loaded, however the track became current
C27_VisibleIffTrack == miniPlayerVisible <=> currentTrack # Null

\* queue r holds the items of queue q, each once
SameItems(r, q) ==
    /\ Len(r) = Len(q)
    /\ {r[k] : k \in 1..Len(r)} = {q[k] : k \in 1..Len(q)}
    /\ Ids(r) = Ids(q)
    /\ \A j, k \in 1..Len(r) : r[j].id = r[k].id => j = k

\* C28: reorderQueue(from, to) and toggleShuffle keep the queue's items, each
\* once, and its length; removeFromQueue(i) takes out the item at position i
\* and keeps the others in their order; addToQueue appends one item with a
\* new id and leaves queueIndex and the items before it as they were
C28_QueueKeepsItems ==
    LET n == Len(queue)
    IN /\ \A from, to \in 0..(n - 1) :
              SameItems(ReorderQueue(State, from, to).queue, queue)
       /\ \A rnd \in RandChoices(IF n > 1 THEN n - 1 ELSE 1) :
              SameItems(ToggleShuffle(State, rnd).queue, queue)
       /\ \A i \in 0..(n - 1) :
              LET r == RemoveFromQueue(State, i).queue
              IN /\ Len(r) = n - 1
                 /\ \A k \in 1..i : r[k] = queue[k]
                 /\ \A k \in (i + 1)..(n - 1) : r[k] = queue[k + 1]
       /\ \A pid \in views : \A t \in 1..TracksIn(pid) :
              LET r == AddToQueue(State, Track(t))
              IN /\ Len(r.queue) = n + 1
                 /\ SubSeq(r.queue, 1, n) = queue
                 /\ r.queue[n + 1].src = t
                 /\ r.queue[n + 1].id \notin Ids(queue)
                 /\ r.queueIndex = queueIndex

\* C28 witness: a full queue whose items were added, shuffled or dragged out
\* of the order of their ids, the second one being played
C28_Witness ==
    /\ Len(queue) = MaxQueue
    /\ queueIndex = 1
    /\ queue[1].id > queue[2].id
    /\ queue[3].originalIndex = Undef

\* C29 as claimed: a timer of onSeek that fires while another track than the
\* clicked one is current, or after playback was stopped, leaves the playback
\* position of what is loaded as it was
C29_DeferredSeekOnlyItsTrack ==
    \A tm \in seekTimers :
        (currentTrack = Null \/ currentTrack.src # tm.src)
            => SeekTimerFired(State, tm).audio.currentTime = audio.currentTime

\* C30 as claimed: in the paged PDF viewer, once every goToSlide call has
\* completed, in whatever order the page renders ended, currentPage is the
\* first page of slides[currentSlideIndex] and the active dot is the one at
\* currentSlideIndex
C30_ViewerConsistentWhenIdle ==
    pdf.going = {} =>
        /\ pdf.currentPage = pdf.slides[pdf.currentSlideIndex + 1].pages[1]
        /\ pdf.activeDot = pdf.currentSlideIndex

====
